---- MODULE Spec2Model ----
(***************************************************************************)
(* Reconciliation of the PodDisruptionBudget of a Redis cluster            *)
(* (k8sutils/poddisruption.go) against a Kubernetes API server.            *)
(*                                                                         *)
(* Reconcilers run the code of ReconcileRedisPodDisruptionBudget; every    *)
(* API call (get/create/update/delete) is one atomic step, the local code  *)
(* between two calls belongs to the step of the call that precedes it.     *)
(* Other clients of the API server (users, other controllers) are the      *)
(* Ext* actions.                                                           *)
(***************************************************************************)
EXTENDS Integers, FiniteSets, Sequences, TLC

\* ---------------------------------------------------------------- bounds
MaxSize == 16          \* cluster sizes 1..MaxSize
MaxReconcileSize == 2  \* ... of which the control loop reconciles 1..MaxReconcileSize
MaxBound == 1          \* minAvailable, maxUnavailable set by the user: 1..MaxBound
MaxClock == 3          \* the API server accepts at most MaxClock writes in a behaviour

Procs == {1, 2}        \* reconcile invocations that may overlap

\* ---------------------------------------------------------------- values
Nil == -1                         \* a nil *int32 / *IntOrString
Absent == "<absent>"              \* key not in the annotation map
GenKey == "redis.opstreelabs.in"  \* annotation set by the operator's metadata
ForeignKey == "team"              \* annotation set by somebody else
AnnotKeys == {GenKey, ForeignKey}
AnnotVals == {"true", "payments"}
NoAnnots == [k \in AnnotKeys |-> Absent]

\* the errors a call can return; "nil" is success
ErrNotFound == "NotFound"
ErrConflict == "Conflict"
ErrAlreadyExists == "AlreadyExists"
ErrBackend == "BackendError"
ErrSerialization == "SerializationFailure"
ErrCalculate == "CalculateFailure"

IsNotFound(err) == err = ErrNotFound

\* cr.Spec.RedisLeader.PodDisruptionBudget: nil, or {Enabled, MinAvailable, MaxUnavailable}
NoPDB == [set |-> FALSE, Enabled |-> FALSE, MinAvailable |-> Nil, MaxUnavailable |-> Nil]
PDBParams ==
    {NoPDB} \cup
    {[set |-> TRUE, Enabled |-> e, MinAvailable |-> a, MaxUnavailable |-> b] :
        e \in BOOLEAN, a \in {Nil} \cup 1..MaxBound, b \in {Nil} \cup 1..MaxBound}

\* the RedisCluster custom resources handed to the reconciler
Clusters == [Size : 1..MaxSize, PodDisruptionBudget : PDBParams]

\* policyv1beta1.PodDisruptionBudgetSpec (the selector is fixed by name and role)
PDBSpec(min, max) == [MinAvailable |-> min, MaxUnavailable |-> max]

\* a PodDisruptionBudget object; 0 is the zero value of the three
\* server-owned metadata fields, la holds the last-applied annotation
\* (empty, or the one serialised object it stores)
PDB(rv, ct, mf, annots, la, spec) ==
    [ResourceVersion |-> rv, CreationTimestamp |-> ct, ManagedFields |-> mf,
     Annotations |-> annots, LastApplied |-> la, Spec |-> spec]

\* ------------------------------------------------------ desired state
\* generateStatefulSetsAnots(): the annotations of a freshly built object
generateStatefulSetsAnots == [k \in AnnotKeys |-> IF k = GenKey THEN "true" ELSE Absent]

\* generatePodDisruptionBudgetDef with the quorum computed as Size/2
generatePodDisruptionBudgetDef_Half(cr) ==
    LET pdbParams == cr.PodDisruptionBudget
        min1 == pdbParams.MinAvailable
        max1 == pdbParams.MaxUnavailable
        min2 == IF max1 = Nil /\ min1 = Nil THEN cr.Size \div 2 ELSE min1
    IN  PDB(0, 0, 0, generateStatefulSetsAnots, {}, PDBSpec(min2, max1))

\* generatePodDisruptionBudgetDef (lines 38-61)
generatePodDisruptionBudgetDef(cr) ==
    LET pdbParams == cr.PodDisruptionBudget
        min1 == IF pdbParams.MinAvailable # Nil THEN pdbParams.MinAvailable ELSE Nil
        max1 == IF pdbParams.MaxUnavailable # Nil THEN pdbParams.MaxUnavailable ELSE Nil
        min2 == IF max1 = Nil /\ min1 = Nil THEN (cr.Size \div 2) + 1 ELSE min1
    IN  PDB(0, 0, 0, generateStatefulSetsAnots, {}, PDBSpec(min2, max1))

\* line 19 with the Enabled flag read the wrong way round
PolicyEnabled_Inverted(cr) == cr.PodDisruptionBudget.set /\ ~cr.PodDisruptionBudget.Enabled

\* line 19: the condition of the create-or-update branch
PolicyEnabled(cr) == cr.PodDisruptionBudget.set /\ cr.PodDisruptionBudget.Enabled

\* ------------------------------------------- last-applied annotation
\* What patch.DefaultAnnotator serialises: the whole object without the
\* last-applied annotation itself.
Serialize(obj) ==
    [ResourceVersion |-> obj.ResourceVersion, CreationTimestamp |-> obj.CreationTimestamp,
     ManagedFields |-> obj.ManagedFields, Annotations |-> obj.Annotations, Spec |-> obj.Spec]

\* a stamping that leaves an annotation that is already there alone
SetLastAppliedAnnotation_KeepExisting(obj) ==
    IF obj.LastApplied # {} THEN obj ELSE [obj EXCEPT !.LastApplied = {Serialize(obj)}]

\* patch.DefaultAnnotator.SetLastAppliedAnnotation(obj), when it succeeds
SetLastAppliedAnnotation(obj) == [obj EXCEPT !.LastApplied = {Serialize(obj)}]

\* patch.DefaultPatchMaker.Calculate(current, modified): the three-way merge
\* patch.  delta = what modified adds to or changes in current (deletions
\* ignored); deletions = what the last-applied object of current has and
\* modified has not.  Each is the set of the fields it touches.
MetaFields == {"ResourceVersion", "CreationTimestamp", "ManagedFields"}
SpecFields == {"MinAvailable", "MaxUnavailable"}

Delta(current, modified) ==
    [meta   |-> {f \in MetaFields : modified[f] # 0 /\ modified[f] # current[f]},
     annots |-> {k \in AnnotKeys : modified.Annotations[k] # Absent
                                   /\ modified.Annotations[k] # current.Annotations[k]},
     la     |-> modified.LastApplied # {} /\ modified.LastApplied # current.LastApplied,
     spec   |-> {f \in SpecFields : modified.Spec[f] # Nil /\ modified.Spec[f] # current.Spec[f]}]

Deletions(original, modified) ==
    [meta   |-> {f \in MetaFields : original[f] # 0 /\ modified[f] = 0},
     annots |-> {k \in AnnotKeys : original.Annotations[k] # Absent
                                   /\ modified.Annotations[k] = Absent},
     spec   |-> {f \in SpecFields : original.Spec[f] # Nil /\ modified.Spec[f] = Nil}]

NoDeletions == [meta |-> {}, annots |-> {}, spec |-> {}]

\* Calculate as a two-way diff: the last-applied object is not consulted
Calculate_TwoWay(current, modified) ==
    LET delta == Delta(current, modified)
    IN  [meta |-> delta.meta, annots |-> delta.annots, la |-> delta.la, spec |-> delta.spec]

Calculate(current, modified) ==
    LET delta == Delta(current, modified)
        dels  == IF current.LastApplied = {} THEN NoDeletions
                 ELSE Deletions(CHOOSE o \in current.LastApplied : TRUE, modified)
    IN  [meta   |-> delta.meta \cup dels.meta,
         annots |-> delta.annots \cup dels.annots,
         la     |-> delta.la,
         spec   |-> delta.spec \cup dels.spec]

\* PatchResult.IsEmpty()
IsEmpty(patchResult) ==
    /\ patchResult.meta = {}
    /\ patchResult.annots = {}
    /\ ~patchResult.la
    /\ patchResult.spec = {}

\* lines 89-96 without the copy of the resourceVersion
MergeStored_NoResourceVersion(storedPdb, newPdb) ==
    [newPdb EXCEPT
        !.CreationTimestamp = storedPdb.CreationTimestamp,
        !.ManagedFields = storedPdb.ManagedFields,
        !.Annotations = [k \in AnnotKeys |->
                            IF newPdb.Annotations[k] = Absent
                            THEN storedPdb.Annotations[k]
                            ELSE newPdb.Annotations[k]],
        !.LastApplied = IF newPdb.LastApplied = {} THEN storedPdb.LastApplied
                        ELSE newPdb.LastApplied]

\* lines 89-96 without the loop over the stored annotations
MergeStored_NoAnnotations(storedPdb, newPdb) ==
    [newPdb EXCEPT
        !.ResourceVersion = storedPdb.ResourceVersion,
        !.CreationTimestamp = storedPdb.CreationTimestamp,
        !.ManagedFields = storedPdb.ManagedFields]

\* lines 89-96 of patchPodDisruptionBudget: copy the server-owned fields and
\* every annotation of the stored object that the new one does not have
\* (the stored last-applied annotation is one of them)
MergeStored(storedPdb, newPdb) ==
    [newPdb EXCEPT
        !.ResourceVersion = storedPdb.ResourceVersion,
        !.CreationTimestamp = storedPdb.CreationTimestamp,
        !.ManagedFields = storedPdb.ManagedFields,
        !.Annotations = [k \in AnnotKeys |->
                            IF newPdb.Annotations[k] = Absent
                            THEN storedPdb.Annotations[k]
                            ELSE newPdb.Annotations[k]],
        !.LastApplied = IF newPdb.LastApplied = {} THEN storedPdb.LastApplied
                        ELSE newPdb.LastApplied]


\* -------------------------------------------------- reconcile, local code
GetErrors == {ErrBackend, "Forbidden"}       \* failures of a get other than NotFound
WriteErrors == {ErrBackend}                  \* failures of a write that leave the object alone

\* the outcome of the local code that follows the get: where the invocation
\* goes next, what it returns if it is over, and the object it built
Outcome(pc, ret, pdb, patch, stampFailed) ==
    [pc |-> pc, ret |-> ret, pdb |-> pdb, patch |-> patch, stampFailed |-> stampFailed]

\* patchPodDisruptionBudget that updates without looking at the patch
patchPodDisruptionBudget_AlwaysUpdate(storedPdb, newPdb, calcOK, stampOK) ==
    IF ~calcOK
    THEN Outcome("done", ErrCalculate, newPdb, "none", FALSE)
    ELSE LET merged == MergeStored(storedPdb, newPdb)
             patch == IF IsEmpty(Calculate(storedPdb, newPdb)) THEN "empty" ELSE "nonempty"
         IN  IF ~stampOK
             THEN Outcome("done", ErrSerialization, merged, patch, TRUE)
             ELSE Outcome("update", "none", SetLastAppliedAnnotation(merged), patch, FALSE)

\* patchPodDisruptionBudget (lines 81-104) up to the update call; calcOK and
\* stampOK say whether Calculate and SetLastAppliedAnnotation succeed
patchPodDisruptionBudget(storedPdb, newPdb, calcOK, stampOK) ==
    IF ~calcOK
    THEN Outcome("done", ErrCalculate, newPdb, "none", FALSE)
    ELSE IF ~IsEmpty(Calculate(storedPdb, newPdb))
         THEN LET merged == MergeStored(storedPdb, newPdb)
              IN  IF ~stampOK
                  THEN Outcome("done", ErrSerialization, merged, "nonempty", TRUE)
                  ELSE Outcome("update", "none", SetLastAppliedAnnotation(merged), "nonempty", FALSE)
         ELSE Outcome("done", "nil", newPdb, "empty", FALSE)

\* CreateOrUpdatePodDisruptionBudget that goes on after a failed stamping
CreateOrUpdateAfterGet_IgnoreStampError(storedPDB, err, pdbDef, calcOK, stampOK) ==
    IF err # "nil"
    THEN IF IsNotFound(err)
         THEN Outcome("create", "none",
                      IF stampOK THEN SetLastAppliedAnnotation(pdbDef) ELSE pdbDef,
                      "none", ~stampOK)
         ELSE Outcome("done", err, pdbDef, "none", ~stampOK)
    ELSE patchPodDisruptionBudget(storedPDB[1], pdbDef, calcOK, stampOK)

\* CreateOrUpdatePodDisruptionBudget (lines 64-78) after its get returned
\* (storedPDB, err), up to the create or update call
CreateOrUpdateAfterGet(storedPDB, err, pdbDef, calcOK, stampOK) ==
    IF err # "nil"
    THEN IF ~stampOK
         THEN Outcome("done", ErrSerialization, pdbDef, "none", TRUE)
         ELSE IF IsNotFound(err)
              THEN Outcome("create", "none", SetLastAppliedAnnotation(pdbDef), "none", FALSE)
              ELSE Outcome("done", err, SetLastAppliedAnnotation(pdbDef), "none", FALSE)
    ELSE patchPodDisruptionBudget(storedPDB[1], pdbDef, calcOK, stampOK)

\* the else branch returning the NotFound of its get
DeleteAfterGet_NotFoundIsError(err, pdbDef) ==
    IF err = "nil"
    THEN Outcome("delete", "none", pdbDef, "none", FALSE)
    ELSE Outcome("done", err, pdbDef, "none", FALSE)

\* the else branch of ReconcileRedisPodDisruptionBudget (lines 25-34) after
\* its get returned err, up to the delete call
DeleteAfterGet(err, pdbDef) ==
    IF err = "nil"
    THEN Outcome("delete", "none", pdbDef, "none", FALSE)
    ELSE IF IsNotFound(err)
         THEN Outcome("done", "nil", pdbDef, "none", FALSE)
         ELSE Outcome("done", err, pdbDef, "none", FALSE)

\* ------------------------------------------------------------- state
VARIABLES
    store,      \* the API server: <<>> or <<the PodDisruptionBudget>>
    clock,      \* number of writes the API server has accepted; the source of resourceVersion
    cluster,    \* cr: the RedisCluster the running (or latest) invocations were called with
    frame,      \* per invocation: position, locals, calls issued
    last        \* how the invocation that returned most recently ended

vars == <<store, clock, cluster, frame, last>>

\* last / frame.pred: ok = that invocation returned nil and nobody else wrote
\* to the server between its get and its return; benignTo = the clock up to
\* which the writes that followed its return touched only what the
\* reconciler does not govern (resourceVersion, managedFields, a foreign
\* annotation added or changed)
NoLast == [ok |-> FALSE, wrote |-> "none", endClock |-> 0, benignTo |-> 0]

IdleFrame ==
    [pc |-> "idle", pdbDef |-> <<>>, storedPDB |-> <<>>,
     getErr |-> "none", patch |-> "none", stampFailed |-> FALSE,
     ret |-> "none", writeErr |-> "none", sent |-> <<>>,
     nGet |-> 0, nCreate |-> 0, nUpdate |-> 0, nDelete |-> 0,
     getClock |-> 0, hit |-> <<>>, pred |-> NoLast]

\* the custom resources the control loop calls reconcile with
ReconcileInputs ==
    {cr \in Clusters :
        /\ cr.Size <= MaxReconcileSize
        /\ ~PolicyEnabled(cr) => /\ cr.PodDisruptionBudget.MinAvailable = Nil
                                 /\ cr.PodDisruptionBudget.MaxUnavailable = Nil}

Init ==
    /\ store = <<>>
    /\ clock = 0
    /\ cluster \in ReconcileInputs
    /\ frame = [p \in Procs |-> IdleFrame]
    /\ last = NoLast

\* ------------------------------------------------------------ reconcile
\* GetPodDisruptionBudget (lines 143-152): fault is the failure of the
\* round trip, "nil" when the server answers
GetPodDisruptionBudget(fault) ==
    IF fault # "nil" THEN [obj |-> <<>>, err |-> fault]
    ELSE IF store = <<>> THEN [obj |-> <<>>, err |-> ErrNotFound]
    ELSE [obj |-> store, err |-> "nil"]

\* ReconcileRedisPodDisruptionBudget (lines 17-23): entry with argument cr;
\* on the enabled branch the desired object is built before the first call.
\* Invocations that overlap are called with the same cr.
Enter(p, cr) ==
    /\ frame[p].pc = "idle"
    /\ cr # cluster => \A q \in Procs : frame[q].pc = "idle"
    /\ cluster' = cr
    /\ frame' = [frame EXCEPT ![p] =
                    [IdleFrame EXCEPT
                        !.pc = "get",
                        !.pdbDef = IF PolicyEnabled(cr)
                                   THEN <<generatePodDisruptionBudgetDef(cr)>>
                                   ELSE <<>>,
                        !.pred = IF cr = cluster THEN last ELSE NoLast]]
    /\ UNCHANGED <<store, clock, last>>

ReconcileRedisPodDisruptionBudget(p) == \E cr \in ReconcileInputs : Enter(p, cr)

\* an invocation of a control loop that races with another one on the same cr
ReconcileSameCluster(p) == Enter(p, cluster)

AfterGet(f, g, out) ==
    [f EXCEPT !.pc = out.pc, !.ret = out.ret, !.pdbDef = out.pdb,
              !.patch = out.patch, !.stampFailed = out.stampFailed,
              !.storedPDB = g.obj, !.getErr = g.err,
              !.nGet = f.nGet + 1, !.getClock = clock]

\* CreateOrUpdatePodDisruptionBudget (lines 64-78): the get and the local
\* code that follows it
CreateOrUpdatePodDisruptionBudget(p) ==
    /\ frame[p].pc = "get"
    /\ PolicyEnabled(cluster)
    /\ \E fault \in {"nil"} \cup GetErrors, calcOK \in BOOLEAN, stampOK \in BOOLEAN :
          LET g == GetPodDisruptionBudget(fault)
              out == CreateOrUpdateAfterGet(g.obj, g.err, frame[p].pdbDef[1], calcOK, stampOK)
          IN  frame' = [frame EXCEPT ![p] = AfterGet(@, g, [out EXCEPT !.pdb = <<out.pdb>>])]
    /\ UNCHANGED <<store, clock, cluster, last>>

\* ReconcileRedisPodDisruptionBudget (lines 25-34): the get of the else branch
ReconcileDisabled(p) ==
    /\ frame[p].pc = "get"
    /\ ~PolicyEnabled(cluster)
    /\ \E fault \in {"nil"} \cup GetErrors :
          LET g == GetPodDisruptionBudget(fault)
              out == DeleteAfterGet(g.err, frame[p].pdbDef)
          IN  frame' = [frame EXCEPT ![p] = AfterGet(@, g, out)]
    /\ UNCHANGED <<store, clock, cluster, last>>

\* the API server's answer to a create: the error, or "nil" and the stored object
ServerCreate(obj, fault) ==
    IF fault # "nil" THEN [err |-> fault, store |-> store]
    ELSE IF store # <<>> THEN [err |-> ErrAlreadyExists, store |-> store]
    ELSE [err |-> "nil",
          store |-> <<[obj EXCEPT !.ResourceVersion = clock + 1,
                                  !.CreationTimestamp = clock + 1,
                                  !.ManagedFields = 1]>>]

\* the API server's answer to an update: optimistic concurrency on resourceVersion
ServerUpdate(obj, fault) ==
    IF fault # "nil" THEN [err |-> fault, store |-> store]
    ELSE IF store = <<>> THEN [err |-> ErrNotFound, store |-> store]
    ELSE IF obj.ResourceVersion # 0 /\ obj.ResourceVersion # store[1].ResourceVersion
         THEN [err |-> ErrConflict, store |-> store]
    ELSE [err |-> "nil",
          store |-> <<[obj EXCEPT !.ResourceVersion = clock + 1,
                                  !.CreationTimestamp = store[1].CreationTimestamp]>>]

\* the API server's answer to a delete by name
ServerDelete(fault) ==
    IF fault # "nil" THEN [err |-> fault, store |-> store]
    ELSE IF store = <<>> THEN [err |-> ErrNotFound, store |-> store]
    ELSE [err |-> "nil", store |-> <<>>]

\* a write call that is repeated once when it fails
Write_Retry(p, r, f) ==
    /\ r.err = "nil" => clock < MaxClock
    /\ store' = r.store
    /\ clock' = IF r.err = "nil" THEN clock + 1 ELSE clock
    /\ frame' = [frame EXCEPT ![p] =
                    IF r.err # "nil" /\ f.nCreate + f.nUpdate + f.nDelete = 1
                    THEN [f EXCEPT !.writeErr = r.err]
                    ELSE [f EXCEPT !.pc = "done", !.ret = r.err, !.writeErr = r.err]]
    /\ UNCHANGED <<cluster, last>>

\* a write call whose error is logged and dropped
Write_SwallowError(p, r, f) ==
    /\ r.err = "nil" => clock < MaxClock
    /\ store' = r.store
    /\ clock' = IF r.err = "nil" THEN clock + 1 ELSE clock
    /\ frame' = [frame EXCEPT ![p] = [f EXCEPT !.pc = "done", !.ret = "nil", !.writeErr = r.err]]
    /\ UNCHANGED <<cluster, last>>

\* the effect of a write call on the server and on the caller, which
\* returns the call's error (hit: what the server held when the call arrived)
Write(p, r, f) ==
    /\ r.err = "nil" => clock < MaxClock
    /\ store' = r.store
    /\ clock' = IF r.err = "nil" THEN clock + 1 ELSE clock
    /\ frame' = [frame EXCEPT ![p] = [f EXCEPT !.pc = "done", !.ret = r.err, !.writeErr = r.err,
                                               !.hit = store]]
    /\ UNCHANGED <<cluster, last>>

\* createPodDisruptionBudget (lines 107-116)
createPodDisruptionBudget(p) ==
    /\ frame[p].pc = "create"
    /\ \E fault \in {"nil"} \cup WriteErrors :
          Write(p, ServerCreate(frame[p].pdbDef[1], fault),
                [frame[p] EXCEPT !.nCreate = @ + 1, !.sent = frame[p].pdbDef])

\* an update that does not send the resourceVersion it was built from
updatePodDisruptionBudget_Unconditional(p) ==
    /\ frame[p].pc = "update"
    /\ \E fault \in {"nil"} \cup WriteErrors :
          Write(p, ServerUpdate([frame[p].pdbDef[1] EXCEPT !.ResourceVersion = 0], fault),
                [frame[p] EXCEPT !.nUpdate = @ + 1, !.sent = frame[p].pdbDef])

\* updatePodDisruptionBudget (lines 119-128)
updatePodDisruptionBudget(p) ==
    /\ frame[p].pc = "update"
    /\ \E fault \in {"nil"} \cup WriteErrors :
          Write(p, ServerUpdate(frame[p].pdbDef[1], fault),
                [frame[p] EXCEPT !.nUpdate = @ + 1, !.sent = frame[p].pdbDef])

\* a delete that takes the NotFound of the server for success
deletePodDisruptionBudget_IgnoreNotFound(p) ==
    /\ frame[p].pc = "delete"
    /\ \E fault \in {"nil"} \cup WriteErrors :
          LET r == ServerDelete(fault)
          IN  Write(p, IF IsNotFound(r.err) THEN [r EXCEPT !.err = "nil"] ELSE r,
                    [frame[p] EXCEPT !.nDelete = @ + 1])

\* deletePodDisruptionBudget (lines 131-140)
deletePodDisruptionBudget(p) ==
    /\ frame[p].pc = "delete"
    /\ \E fault \in {"nil"} \cup WriteErrors :
          Write(p, ServerDelete(fault), [frame[p] EXCEPT !.nDelete = @ + 1])

\* what a finished invocation wrote
Wrote(f) ==
    IF f.writeErr # "nil" THEN "none"
    ELSE IF f.nCreate = 1 THEN "create"
    ELSE IF f.nUpdate = 1 THEN "update"
    ELSE "delete"

\* the invocation returns to the control loop
Return(p) ==
    /\ frame[p].pc = "done"
    /\ last' = IF /\ frame[p].ret = "nil"
                  /\ clock = frame[p].getClock + (IF frame[p].writeErr = "nil" THEN 1 ELSE 0)
               THEN [ok |-> TRUE, wrote |-> Wrote(frame[p]), endClock |-> clock, benignTo |-> clock]
               ELSE NoLast
    /\ frame' = [frame EXCEPT ![p] = IdleFrame]
    /\ UNCHANGED <<store, clock, cluster>>

\* ------------------------------------------------- other API clients
\* last after a write that touches nothing the reconciler governs
Benign(l) == IF l.ok /\ l.benignTo = clock THEN [l EXCEPT !.benignTo = clock + 1] ELSE l

\* the values of minAvailable that other clients write
ExtMins == {0, MaxBound}

\* somebody creates the object directly, without a last-applied annotation
ExtCreate ==
    /\ store = <<>>
    /\ clock < MaxClock
    /\ \E min \in ExtMins, gen \in {Absent, "true"} :
          store' = <<PDB(clock + 1, clock + 1, 2,
                         [NoAnnots EXCEPT ![GenKey] = gen], {}, PDBSpec(min, Nil))>>
    /\ clock' = clock + 1
    /\ UNCHANGED <<cluster, frame, last>>

\* somebody sets, changes or removes an annotation of the object
ExtAnnotate ==
    /\ store # <<>>
    /\ clock < MaxClock
    /\ \E v \in {"payments", Absent} :
          /\ store[1].Annotations[ForeignKey] # v
          /\ store' = <<[store[1] EXCEPT !.ResourceVersion = clock + 1,
                                         !.Annotations[ForeignKey] = v]>>
          /\ last' = IF v # Absent THEN Benign(last) ELSE last
    /\ clock' = clock + 1
    /\ UNCHANGED <<cluster, frame>>

\* somebody edits minAvailable of the object
ExtEditSpec ==
    /\ store # <<>>
    /\ clock < MaxClock
    /\ \E min \in ExtMins :
          /\ store[1].Spec.MinAvailable # min
          /\ store' = <<[store[1] EXCEPT !.ResourceVersion = clock + 1,
                                         !.Spec.MinAvailable = min]>>
    /\ clock' = clock + 1
    /\ UNCHANGED <<cluster, frame, last>>

\* the server or a controller rewrites managedFields (e.g. a status update)
ExtTouch ==
    /\ store # <<>>
    /\ clock < MaxClock
    /\ store' = <<[store[1] EXCEPT !.ResourceVersion = clock + 1,
                                   !.ManagedFields = 3 - @]>>
    /\ clock' = clock + 1
    /\ last' = Benign(last)
    /\ UNCHANGED <<cluster, frame>>

\* somebody deletes the object
ExtDelete ==
    /\ store # <<>>
    /\ clock < MaxClock
    /\ store' = <<>>
    /\ clock' = clock + 1
    /\ UNCHANGED <<cluster, frame, last>>

\* one control loop: invocations follow one another
Next ==
    \/ ReconcileRedisPodDisruptionBudget(1)
    \/ CreateOrUpdatePodDisruptionBudget(1)
    \/ ReconcileDisabled(1)
    \/ createPodDisruptionBudget(1)
    \/ updatePodDisruptionBudget(1)
    \/ deletePodDisruptionBudget(1)
    \/ Return(1)
    \/ ExtCreate
    \/ ExtAnnotate
    \/ ExtEditSpec
    \/ ExtTouch
    \/ ExtDelete

Spec == Init /\ [][Next]_vars

\* two control loops on the same cluster, one invocation each: the two
\* invocations overlap with each other and with the other clients
NextRace ==
    \/ \E p \in Procs : ReconcileSameCluster(p)
    \/ \E p \in Procs : CreateOrUpdatePodDisruptionBudget(p)
    \/ \E p \in Procs : ReconcileDisabled(p)
    \/ \E p \in Procs : createPodDisruptionBudget(p)
    \/ \E p \in Procs : updatePodDisruptionBudget(p)
    \/ \E p \in Procs : deletePodDisruptionBudget(p)
    \/ ExtCreate
    \/ ExtDelete

\* the clusters the racing control loops reconcile
RaceInputs ==
    {cr \in ReconcileInputs :
        /\ cr.Size = 1
        /\ cr.PodDisruptionBudget.set
        /\ cr.PodDisruptionBudget.MinAvailable = Nil
        /\ cr.PodDisruptionBudget.MaxUnavailable = Nil}

\* the objects somebody created before the race begins; their
\* resourceVersion is none of those the server hands out later
PreExisting ==
    {PDB(MaxClock + 1, MaxClock + 1, 2, [NoAnnots EXCEPT ![GenKey] = gen], {}, PDBSpec(min, Nil)) :
        min \in ExtMins, gen \in {Absent, "true"}}

InitRace ==
    /\ store \in {<<>>} \cup {<<o>> : o \in PreExisting}
    /\ clock = 0
    /\ cluster \in RaceInputs
    /\ frame = [p \in Procs |-> IdleFrame]
    /\ last = NoLast

SpecRace == InitRace /\ [][NextRace]_vars

\* ------------------------------------------------ the builder on its own
\* generatePodDisruptionBudgetDef applied to every cluster with an enabled policy
InitBuild ==
    /\ store = <<>>
    /\ clock = 0
    /\ cluster \in {cr \in Clusters : PolicyEnabled(cr)}
    /\ frame = [p \in Procs |-> IdleFrame]
    /\ last = NoLast

BuildDef ==
    /\ frame[1].pc = "idle"
    /\ frame' = [frame EXCEPT ![1].pc = "built",
                              ![1].pdbDef = <<generatePodDisruptionBudgetDef(cluster)>>]
    /\ UNCHANGED <<store, clock, cluster, last>>

NextBuild == BuildDef

SpecBuild == InitBuild /\ [][NextBuild]_vars

\* ================================================================ claims
\* C1 (as claimed).  Idempotence: an invocation with an enabled policy that
\* follows a successful invocation with the same cr, with no write by anybody
\* else from the get of the first to the get of the second, issues no update
\* call, whether the first invocation created, updated or did nothing.
C1_Idempotence ==
    \A p \in Procs :
        LET f == frame[p]
        IN  (/\ PolicyEnabled(cluster)
             /\ f.pred.ok
             /\ f.nGet = 1
             /\ f.getClock = f.pred.endClock)
            => (f.pc # "update" /\ f.nUpdate = 0)

\* the write calls an invocation has issued
Writes(f) == f.nCreate + f.nUpdate + f.nDelete

\* the invocation got an object and could not compute the patch
CalcFailed(f) == f.getErr = "nil" /\ f.ret = ErrCalculate

\* the dispatch of a finished invocation on the enabled branch
DispatchEnabled(f) ==
    /\ f.getErr = ErrNotFound =>
          /\ f.nCreate = 1 /\ f.nUpdate = 0 /\ f.nDelete = 0
          /\ f.sent[1].Spec = generatePodDisruptionBudgetDef(cluster).Spec
          /\ f.sent[1].ResourceVersion = 0
    /\ f.getErr = "nil" =>
          /\ f.patch \in {"empty", "nonempty"}
          /\ f.nCreate = 0 /\ f.nDelete = 0
          /\ f.nUpdate = (IF f.patch = "nonempty" THEN 1 ELSE 0)

\* C2 (as claimed).  Dispatch with an enabled policy: object absent ->
\* exactly one create of the desired object; object present -> the diff is
\* computed, exactly one update if it is non-empty, no write if it is empty;
\* never a create for a present object, never a delete.
C2_DispatchAlways ==
    \A p \in Procs :
        (frame[p].pc = "done" /\ PolicyEnabled(cluster)) => DispatchEnabled(frame[p])

\* C2 (amended).  The dispatch above holds whenever stamping the last-applied
\* annotation and computing the patch succeed; when one of them fails the
\* invocation issues no write call at all.
C2_Dispatch ==
    \A p \in Procs :
        LET f == frame[p]
        IN  (f.pc = "done" /\ PolicyEnabled(cluster)) =>
                IF f.stampFailed \/ CalcFailed(f)
                THEN Writes(f) = 0
                ELSE DispatchEnabled(f)

C2_Witness ==
    \E p \in Procs :
        /\ frame[p].pc = "done" /\ PolicyEnabled(cluster)
        /\ frame[p].getErr = "nil" /\ frame[p].patch = "nonempty"
        /\ frame[p].nUpdate = 1 /\ frame[p].writeErr = "nil"

\* C3.  Disable-deletes: with the policy absent or disabled, a live object
\* is answered by exactly one delete call and no create or update; NotFound
\* is answered by no write call and the invocation returns success.
C3_DisableDeletes ==
    \A p \in Procs :
        LET f == frame[p]
        IN  (f.pc = "done" /\ ~PolicyEnabled(cluster)) =>
                /\ f.getErr = "nil" => (f.nDelete = 1 /\ f.nCreate = 0 /\ f.nUpdate = 0)
                /\ f.getErr = ErrNotFound => (Writes(f) = 0 /\ f.ret = "nil")

C3_Witness ==
    \E p \in Procs :
        /\ frame[p].pc = "done" /\ ~PolicyEnabled(cluster)
        /\ frame[p].getErr = ErrNotFound /\ frame[p].ret = "nil"

\* C4.  Every object sent in an update call carries the resourceVersion,
\* creationTimestamp and managedFields of the object the get of the same
\* invocation returned.
C4_BackendOwnedRoundTrip ==
    \A p \in Procs :
        LET f == frame[p]
        IN  f.nUpdate >= 1 =>
                /\ f.storedPDB # <<>>
                /\ f.sent[1].ResourceVersion = f.storedPDB[1].ResourceVersion
                /\ f.sent[1].CreationTimestamp = f.storedPDB[1].CreationTimestamp
                /\ f.sent[1].ManagedFields = f.storedPDB[1].ManagedFields

C4_Witness ==
    \E p \in Procs :
        /\ frame[p].nUpdate = 1 /\ frame[p].writeErr = "nil"
        /\ frame[p].sent[1].ResourceVersion >= 2
        /\ frame[p].sent[1].ManagedFields = 1

\* C5.  Every object sent in an update call has every annotation of the
\* live object that the freshly built object lacks, with the live value.
C5_ForeignAnnotationsKept ==
    \A p \in Procs :
        LET f == frame[p]
        IN  f.nUpdate >= 1 =>
                \A k \in AnnotKeys :
                    (/\ f.storedPDB[1].Annotations[k] # Absent
                     /\ generatePodDisruptionBudgetDef(cluster).Annotations[k] = Absent)
                    => f.sent[1].Annotations[k] = f.storedPDB[1].Annotations[k]

C5_Witness ==
    \E p \in Procs :
        /\ frame[p].nUpdate = 1
        /\ frame[p].storedPDB[1].Annotations[ForeignKey] = "payments"
        /\ frame[p].sent[1].Annotations[ForeignKey] = "payments"

\* C6.  Quorum default: with neither bound set by the user the built object
\* has maxUnavailable unset and minAvailable the smallest strict majority of
\* Size (floor(Size/2)+1); with exactly one bound set, that bound is copied
\* and the other stays unset.
C6_QuorumDefault ==
    frame[1].pc = "built" =>
        LET params == cluster.PodDisruptionBudget
            spec == frame[1].pdbDef[1].Spec
        IN  /\ (params.MinAvailable = Nil /\ params.MaxUnavailable = Nil) =>
                  /\ spec.MaxUnavailable = Nil
                  /\ 2 * spec.MinAvailable > cluster.Size
                  /\ 2 * (spec.MinAvailable - 1) <= cluster.Size
            /\ (params.MinAvailable # Nil /\ params.MaxUnavailable = Nil) =>
                  spec = PDBSpec(params.MinAvailable, Nil)
            /\ (params.MinAvailable = Nil /\ params.MaxUnavailable # Nil) =>
                  spec = PDBSpec(Nil, params.MaxUnavailable)

C6_Witness ==
    /\ frame[1].pc = "built"
    /\ cluster.Size = 5
    /\ cluster.PodDisruptionBudget.MinAvailable = Nil
    /\ cluster.PodDisruptionBudget.MaxUnavailable = Nil
    /\ frame[1].pdbDef[1].Spec = PDBSpec(3, Nil)

\* C7 (as claimed).  A get that fails with an error other than NotFound makes
\* the invocation return exactly that error and issue no write call; a
\* NotFound of the get is never the invocation's return value.
C7_FetchErrorPropagated ==
    \A p \in Procs :
        LET f == frame[p]
        IN  f.pc = "done" =>
                /\ f.getErr \in GetErrors => (f.ret = f.getErr /\ Writes(f) = 0)
                /\ f.getErr = ErrNotFound => f.ret # ErrNotFound

\* C8.  An invocation issues at most one write call, and it has issued
\* exactly one get before it issues or is about to issue the write.
C8_AtMostOneWrite ==
    \A p \in Procs :
        LET f == frame[p]
        IN  /\ Writes(f) <= 1
            /\ f.nGet <= 1
            /\ (Writes(f) = 1 \/ f.pc \in {"create", "update", "delete"}) => f.nGet = 1
            /\ f.pc \in {"create", "update", "delete"} => Writes(f) = 0

C8_Witness ==
    \E p \in Procs : frame[p].pc = "done" /\ frame[p].nDelete = 1 /\ frame[p].nGet = 1

\* C9.  A write call that fails ends the invocation: the server's object is
\* what it was before the call, the invocation returns the call's error, and
\* it issues no call afterwards.
C9_WriteErrorSurfaced ==
    [][\A p \in Procs :
          /\ (Writes(frame'[p]) = Writes(frame[p]) + 1 /\ frame'[p].writeErr # "nil") =>
                /\ store' = store
                /\ frame'[p].pc = "done"
                /\ frame'[p].ret = frame'[p].writeErr
          /\ (frame[p].pc = "done" /\ frame[p].writeErr \notin {"none", "nil"}) =>
                \/ frame'[p] = frame[p]
                \/ frame'[p] = IdleFrame]_vars

C9_Witness ==
    \E p \in Procs :
        /\ frame[p].pc = "done" /\ frame[p].nUpdate = 1
        /\ frame[p].writeErr = ErrConflict /\ frame[p].ret = ErrConflict

\* C10 (as claimed).  When stamping the last-applied annotation fails, the
\* invocation returns the serialization error and has made no API call at
\* all, neither the get nor a write.
C10_AbortBeforeAnyCall ==
    \A p \in Procs :
        LET f == frame[p]
        IN  f.stampFailed =>
                /\ f.pc = "done" /\ f.ret = ErrSerialization
                /\ f.nGet = 0 /\ Writes(f) = 0

\* C10 (amended).  When stamping the last-applied annotation fails, the
\* invocation returns the serialization error and issues no create, update
\* or delete; the one call it has made is the get that precedes the stamping.
C10_AbortBeforeAnyWrite ==
    \A p \in Procs :
        LET f == frame[p]
        IN  f.stampFailed =>
                /\ f.pc = "done" /\ f.ret = ErrSerialization
                /\ f.nGet = 1 /\ Writes(f) = 0 /\ f.sent = <<>>

C10_Witness ==
    \E p \in Procs :
        /\ frame[p].stampFailed /\ frame[p].patch = "nonempty"
        /\ frame[p].ret = ErrSerialization

\* C11 (as claimed).  The built object never has both minAvailable and
\* maxUnavailable set, whatever the user set (neither, one of them, or both).
C11_AtMostOneBound ==
    frame[1].pc = "built" =>
        \/ frame[1].pdbDef[1].Spec.MinAvailable = Nil
        \/ frame[1].pdbDef[1].Spec.MaxUnavailable = Nil

\* the candidate of the claim: the built object after lines 89-97 (server-owned
\* fields copied, annotations merged, fresh snapshot stamped)
C12_Merged(live, built) == SetLastAppliedAnnotation(MergeStored(live, built))

C12_NeedsUpdate(live, built) ==
    \/ \E f \in SpecFields : built.Spec[f] # Nil /\ built.Spec[f] # live.Spec[f]
    \/ \E k \in AnnotKeys : /\ built.Annotations[k] # Absent
                            /\ built.Annotations[k] # live.Annotations[k]
    \/ \E o \in live.LastApplied :
          \/ o.ResourceVersion # 0 \/ o.CreationTimestamp # 0 \/ o.ManagedFields # 0
          \/ \E k \in AnnotKeys : o.Annotations[k] # Absent /\ built.Annotations[k] = Absent
          \/ \E f \in SpecFields : o.Spec[f] # Nil /\ built.Spec[f] = Nil

C13_NoSpuriousDiff ==
    \A p \in Procs :
        LET f == frame[p]
        IN  (/\ PolicyEnabled(cluster)
             /\ f.pred.ok
             /\ f.nGet = 1
             /\ f.pred.benignTo > f.pred.endClock
             /\ f.getClock = f.pred.benignTo)
            => (f.pc # "update" /\ f.nUpdate = 0)

\* C14.  Every object passed to a create or update call carries the snapshot
\* of that very object, stamped by the same invocation before the call (not
\* the snapshot copied from the live object); and when nobody else has
\* written since the get, after the successful call the live object has that
\* snapshot and the snapshot records the live spec.
C14_FreshSnapshot ==
    \A p \in Procs :
        LET f == frame[p]
        IN  /\ (f.nCreate + f.nUpdate >= 1) =>
                  /\ f.sent # <<>>
                  /\ f.sent[1].LastApplied = {Serialize(f.sent[1])}
            /\ (/\ f.nCreate + f.nUpdate = 1 /\ f.writeErr = "nil"
                /\ clock = f.getClock + 1) =>
                  /\ store # <<>>
                  /\ store[1].LastApplied = f.sent[1].LastApplied
                  /\ \A o \in store[1].LastApplied : o.Spec = store[1].Spec
                  /\ store[1].LastApplied # {}

\* an update that replaces the snapshot an earlier invocation left on the object
C14_Witness ==
    \E p \in Procs :
        /\ frame[p].nUpdate = 1 /\ frame[p].writeErr = "nil"
        /\ frame[p].storedPDB[1].LastApplied # {}
        /\ frame[p].storedPDB[1].Spec # frame[p].sent[1].Spec
        /\ frame[p].sent[1].LastApplied # frame[p].storedPDB[1].LastApplied
        /\ clock = frame[p].getClock + 1

\* C15.  Delete only when disabled: an invocation that is about to issue or
\* has issued a delete call was called with the policy absent or with
\* Enabled = false; with Enabled = true no delete is ever issued.
C15_DeleteOnlyWhenDisabled ==
    \A p \in Procs :
        LET f == frame[p]
            pdbParams == cluster.PodDisruptionBudget
        IN  /\ (f.pc = "delete" \/ f.nDelete >= 1) => (~pdbParams.set \/ ~pdbParams.Enabled)
            /\ (pdbParams.set /\ pdbParams.Enabled) => (f.pc # "delete" /\ f.nDelete = 0)

\* a policy switched off explicitly deletes the object a reconcile had created
C15_Witness ==
    \E p \in Procs :
        /\ cluster.PodDisruptionBudget.set /\ ~cluster.PodDisruptionBudget.Enabled
        /\ frame[p].nDelete = 1 /\ frame[p].writeErr = "nil"
        /\ frame[p].storedPDB[1].LastApplied # {}
        /\ store = <<>>

\* C16.  No lost update: an update call built from a get that is out of
\* date when the call arrives (somebody, e.g. the other invocation, has
\* written in between) is not applied: the server's object stays as it is,
\* the server's answer is a conflict when the object still exists, and the
\* invocation ends returning the call's error.
C16_NoLostUpdate ==
    [][\A p \in Procs :
          (frame[p].pc = "update" /\ frame'[p].nUpdate = 1 /\ frame[p].storedPDB # store) =>
              /\ store' = store
              /\ frame'[p].pc = "done"
              /\ frame'[p].writeErr # "nil"
              /\ frame'[p].ret = frame'[p].writeErr
              /\ (store # <<>> /\ frame'[p].writeErr \notin WriteErrors) =>
                    frame'[p].writeErr = ErrConflict]_vars

\* both invocations got the same object; one updated it, the other's update
\* was rejected and the first one's write is still there
C16_Witness ==
    \E p, q \in Procs :
        /\ p # q /\ PolicyEnabled(cluster)
        /\ frame[p].storedPDB # <<>> /\ frame[p].storedPDB = frame[q].storedPDB
        /\ frame[q].nUpdate = 1 /\ frame[q].writeErr = "nil"
        /\ frame[p].nUpdate = 1 /\ frame[p].writeErr = ErrConflict /\ frame[p].ret = ErrConflict
        /\ store # <<>> /\ store[1].LastApplied = frame[q].sent[1].LastApplied
        /\ store[1].ResourceVersion # frame[p].sent[1].ResourceVersion

\* C17.  On the disabled branch only the NotFound of the get is taken for
\* success.  The delete call follows the get unguarded: when the object is
\* gone by the time the call arrives, the call fails (NotFound, unless the
\* round trip itself fails) and the invocation returns that error; when an
\* object is there, whichever version it is and whoever created it, the
\* call that reaches the server deletes it and the invocation returns nil.
C17_DeleteUnguarded ==
    [][\A p \in Procs :
          (frame[p].pc = "delete" /\ frame'[p].nDelete = 1) =>
              /\ frame[p].getErr = "nil" /\ frame[p].ret = "none"
              /\ frame'[p].pc = "done" /\ frame'[p].ret = frame'[p].writeErr
              /\ store = <<>> =>
                    /\ store' = <<>>
                    /\ frame'[p].ret # "nil"
                    /\ frame'[p].ret \notin WriteErrors => frame'[p].ret = ErrNotFound
              /\ (store # <<>> /\ frame'[p].ret \notin WriteErrors) =>
                    /\ store' = <<>>
                    /\ frame'[p].ret = "nil"]_vars

\* two disabled invocations got the same object; somebody deleted it, so the
\* delete of the first returned NotFound; somebody recreated it and the
\* delete of the second removed the new object
C17_Witness ==
    \E p, q \in Procs :
        /\ p # q /\ ~PolicyEnabled(cluster)
        /\ frame[p].getErr = "nil" /\ frame[p].nDelete = 1
        /\ frame[p].hit = <<>> /\ frame[p].ret = ErrNotFound
        /\ frame[q].getErr = "nil" /\ frame[q].nDelete = 1
        /\ frame[q].hit # <<>> /\ frame[q].hit # frame[q].storedPDB
        /\ frame[q].ret = "nil" /\ store = <<>>

\* the get of the invocation found the goal state of its cr: the object with
\* the desired spec when the policy is enabled, no object when it is not
C18_AtGoal(f) ==
    IF PolicyEnabled(cluster)
    THEN /\ f.getErr = "nil"
         /\ f.storedPDB[1].Spec = generatePodDisruptionBudgetDef(cluster).Spec
    ELSE f.getErr = ErrNotFound

\* C18 (as claimed), the quiescence half on finite runs.  Once an invocation
\* has returned nil and nobody else writes, an invocation with the same cr
\* that finds the goal state (enabled: the object with the desired spec;
\* disabled: no object) issues no create, update or delete call.
C18_Quiescence ==
    \A p \in Procs :
        LET f == frame[p]
        IN  (/\ f.pred.ok
             /\ f.nGet = 1
             /\ f.getClock = f.pred.endClock
             /\ C18_AtGoal(f))
            => (Writes(f) = 0 /\ f.pc \notin {"create", "update", "delete"})
====
